---- MODULE Spec2Model ----
(***************************************************************************)
(* Model of pipeline/stepBuilder.go: StepBuilder.Build, the dependency     *)
(* reconciler filterItemsWithMissingDependencies, SanitizePath, the        *)
(* environment composition of Build and SetPipelineStepsOnPipeline.        *)
(*                                                                         *)
(* Strings are sequences of one-character strings, so that SanitizePath    *)
(* is computed on characters as the Go code does.                          *)
(***************************************************************************)
EXTENDS Integers, Sequences, FiniteSets, TLC

VARIABLES
    pc,           \* position of the modelled call
    yamls,        \* b.Yamls: the file names, in slice order
    fi,           \* index of the file the outer loop of Build is at
    axes,         \* len(axes) of the current file, after lines 76-78
    ai,           \* index of the axis the inner loop of Build is at
    matrix,       \* per file already parsed: len(axes) as matrix.ParseString returned it
    pidSequence,  \* Build's local pidSequence
    created,      \* every model.Workflow built at lines 81-87, in order, with
                  \* what parsed.When.Match answered and whether an item was appended
    items,        \* Build's local items, before the reconciler runs
    result,       \* the []*Item Build returns (<<>> for nil)
    err,          \* the error Build returns
    pipeline,     \* pipeline.Workflows after SetPipelineStepsOnPipeline
    refiltered,   \* the reconciler applied to its own output
    path,         \* argument of SanitizePath
    sanitized,    \* SanitizePath(path)
    resanitized,  \* SanitizePath(SanitizePath(path))
    Envs,         \* b.Envs, the caller-provided globals
    metadataEnv,  \* workflowMetadata.Environ()
    axis,         \* the matrix axis of the workflow
    environ       \* the environment Build composes at lines 90-99

buildVars == <<yamls, fi, axes, ai, matrix, pidSequence, created, items, result, err, pipeline>>
pathVars  == <<path, sanitized, resanitized>>
envVars   == <<Envs, metadataEnv, axis, environ>>
vars      == <<pc, buildVars, refiltered, pathVars, envVars>>

----------------------------------------------------------------------------
(* Bounds of the model *)

\* most input files of one Build
MaxYamls == 2
\* most workflows (file x axis) one Build compiles
MaxWorkflows == 3
\* most path segments a SanitizePath argument is built from
MaxSegments == 3
\* longest item list handed directly to the reconciler
MaxItems == 3

SeqsUpTo(S, n) == UNION {[1..k -> S] : k \in 0..n}

----------------------------------------------------------------------------
(* Strings *)

HasSuffix(s, suffix) ==
    /\ Len(s) >= Len(suffix)
    /\ SubSeq(s, Len(s) - Len(suffix) + 1, Len(s)) = suffix

HasPrefix(s, prefix) ==
    /\ Len(s) >= Len(prefix)
    /\ SubSeq(s, 1, Len(prefix)) = prefix

TrimSuffix(s, suffix) ==
    IF HasSuffix(s, suffix) THEN SubSeq(s, 1, Len(s) - Len(suffix)) ELSE s

TrimPrefix(s, prefix) ==
    IF HasPrefix(s, prefix) THEN SubSeq(s, Len(prefix) + 1, Len(s)) ELSE s

RECURSIVE StripTrailingSlashes(_)
StripTrailingSlashes(p) ==
    IF Len(p) > 0 /\ p[Len(p)] = "/"
    THEN StripTrailingSlashes(SubSeq(p, 1, Len(p) - 1))
    ELSE p

RECURSIVE LastSlash(_, _)
LastSlash(p, i) ==
    IF i >= 1 /\ p[i] # "/" THEN LastSlash(p, i - 1) ELSE i

\* filepath.Base on a slash-separated path
Base(p) ==
    IF p = <<>> THEN <<".">>
    ELSE LET s == StripTrailingSlashes(p)
             i == LastSlash(s, Len(s))
             t == IF i >= 1 THEN SubSeq(s, i + 1, Len(s)) ELSE s
         IN  IF t = <<>> THEN <<"/">> ELSE t

DotYml  == <<".", "y", "m", "l">>
DotYaml == <<".", "y", "a", "m", "l">>

SanitizePath(p) ==
    TrimPrefix(TrimSuffix(TrimSuffix(Base(p), DotYml), DotYaml), <<".">>)

----------------------------------------------------------------------------
(* Values *)

StatusPending == "pending"
StatusSkipped == "skipped"

NoError        == "nil"
ErrNoStartpoint == "pipeline has no startpoint"
\* the errors of the per-file and per-axis stages of Build
StageErrors == {"matrix", "substitute", "parse", "lint", "when", "compile"}

Str(c) == <<c>>

\* names of input files: ".a.yaml" and "b.yml"
FileNames == { <<".", "a", ".", "y", "a", "m", "l">>,
               <<"b", ".", "y", "m", "l">> }

\* depends_on lists a parsed workflow may declare; no file is named "c"
DependsOnLists == { <<>>, <<Str("a")>>, <<Str("b")>>, <<Str("c")>> }

\* Config.Stages of a compiled workflow: the number of steps of each stage
StagePlans == { <<>>, <<1, 2>> }

----------------------------------------------------------------------------
(* forge_types.SortByName: byte-wise lexicographic order on the file name *)

Ord(c) == CASE c = "." -> 46 [] c = "/" -> 47 [] c = "a" -> 97 [] c = "b" -> 98
            [] c = "l" -> 108 [] c = "m" -> 109 [] c = "y" -> 121

RECURSIVE NameLess(_, _)
NameLess(s, t) ==
    IF t = <<>> THEN FALSE
    ELSE IF s = <<>> THEN TRUE
    ELSE IF Head(s) # Head(t) THEN Ord(Head(s)) < Ord(Head(t))
    ELSE NameLess(Tail(s), Tail(t))

RECURSIVE InsertByName(_, _)
InsertByName(name, sorted) ==
    IF sorted = <<>> THEN <<name>>
    ELSE IF NameLess(name, Head(sorted)) THEN <<name>> \o sorted
    ELSE <<Head(sorted)>> \o InsertByName(name, Tail(sorted))

RECURSIVE SortByName(_)
SortByName(files) ==
    IF files = <<>> THEN <<>>
    ELSE InsertByName(Head(files), SortByName(Tail(files)))

----------------------------------------------------------------------------
(* The dependency reconciler *)

containsItemWithName(name, its) ==
    \E i \in 1..Len(its) : its[i].Name = name

\* lines 182-186: item is appended once for each dependency that is missing
RECURSIVE AppendPerMissingDep(_, _, _, _)
AppendPerMissingDep(item, deps, its, itemsToRemove) ==
    IF deps = <<>> THEN itemsToRemove
    ELSE AppendPerMissingDep(item, Tail(deps), its,
            IF ~containsItemWithName(Head(deps), its)
            THEN Append(itemsToRemove, item)
            ELSE itemsToRemove)

\* lines 179-187
RECURSIVE CollectItemsToRemove(_, _, _)
CollectItemsToRemove(rest, its, itemsToRemove) ==
    IF rest = <<>> THEN itemsToRemove
    ELSE CollectItemsToRemove(Tail(rest), its,
            AppendPerMissingDep(Head(rest), Head(rest).DependsOn, its, itemsToRemove))

\* lines 190-195
FilterOnce(its, itemsToRemove) ==
    SelectSeq(its, LAMBDA item : ~containsItemWithName(item.Name, itemsToRemove))

\* the reconciler without its recursive call: one pass only
filterItemsOnePass(its) ==
    LET itemsToRemove == CollectItemsToRemove(its, its, <<>>)
    IN  IF Len(itemsToRemove) > 0 THEN FilterOnce(its, itemsToRemove) ELSE its

RECURSIVE filterItemsWithMissingDependencies(_)
filterItemsWithMissingDependencies(its) ==
    LET itemsToRemove == CollectItemsToRemove(its, its, <<>>)
    IN  IF Len(itemsToRemove) > 0
        THEN filterItemsWithMissingDependencies(FilterOnce(its, itemsToRemove))
        ELSE its

stepListContainsItemsToRun(its) ==
    \E i \in 1..Len(its) : its[i].State = StatusPending

----------------------------------------------------------------------------
(* StepBuilder.Build *)

\* lines 76-78 left out: no empty axis is substituted
NormalizeAxesNoDefault(n) == n

\* lines 76-78: no matrix means one empty axis
NormalizeAxes(n) == IF n = 0 THEN 1 ELSE n

\* line 125 left out: a when-miss leaves the workflow pending
WorkflowStateAlwaysPending(match) == StatusPending

\* lines 121-131: the state the when-filter leaves the workflow in
WorkflowState(match) == IF match THEN StatusPending ELSE StatusSkipped

\* lines 138-140: an empty plan is dropped
KeepsItem(stages) == Len(stages) # 0

\* lines 142-149
NewItem(name, pid, state, stages, dependsOn) ==
    [Name |-> name, PID |-> pid, State |-> state, Stages |-> stages,
     DependsOn |-> dependsOn]

\* line 155: the sequence advances only when an item was appended
NextPidSequence(seq, kept) == IF kept THEN seq + 1 ELSE seq

\* line 162 without its len(items) > 0 test
BuildErrorNoLenCheck(survivors) ==
    IF ~stepListContainsItemsToRun(survivors) THEN ErrNoStartpoint ELSE NoError

\* lines 161-164
BuildError(survivors) ==
    IF Len(survivors) > 0 /\ ~stepListContainsItemsToRun(survivors)
    THEN ErrNoStartpoint
    ELSE NoError

\* what a run of the other specifications leaves the Build state at
IdleBuild ==
    /\ yamls = <<>> /\ fi = 0 /\ axes = 0 /\ ai = 0 /\ matrix = <<>>
    /\ pidSequence = 0 /\ created = <<>> /\ items = <<>> /\ result = <<>>
    /\ err = NoError /\ pipeline = <<>>
IdlePath == path = <<>> /\ sanitized = <<>> /\ resanitized = <<>>
IdleEnv  == Envs = <<>> /\ metadataEnv = <<>> /\ axis = <<>> /\ environ = <<>>

\* "return nil, err": the locals of the call are gone, the error is what is left
ReturnError(e) ==
    /\ err' = e
    /\ result' = <<>>
    /\ fi' = 0 /\ axes' = 0 /\ ai' = 0 /\ matrix' = <<>>
    /\ pidSequence' = 0 /\ created' = <<>> /\ items' = <<>>
    /\ pc' = "done"

Init ==
    /\ pc = "sort"
    /\ yamls \in SeqsUpTo(FileNames, MaxYamls)
    /\ fi = 0 /\ axes = 0 /\ ai = 0 /\ matrix = <<>>
    /\ pidSequence = 0 /\ created = <<>> /\ items = <<>> /\ result = <<>>
    /\ err = NoError /\ pipeline = <<>>
    /\ refiltered = <<>>
    /\ IdlePath /\ IdleEnv

\* lines 64-68
SortYamls ==
    /\ pc = "sort"
    /\ yamls' = SortByName(yamls)
    /\ pidSequence' = 1
    /\ fi' = 1
    /\ pc' = "file"
    /\ UNCHANGED <<axes, ai, matrix, created, items, result, err, pipeline,
                   refiltered, pathVars, envVars>>

\* lines 70-78, matrix.ParseString succeeds with n axes
ParseMatrix ==
    /\ pc = "file"
    /\ fi <= Len(yamls)
    /\ \E n \in 0..MaxWorkflows :
        /\ Len(created) + NormalizeAxes(n) + (Len(yamls) - fi) <= MaxWorkflows
        /\ matrix' = Append(matrix, n)
        /\ axes' = NormalizeAxes(n)
        /\ IF NormalizeAxes(n) > 0
           THEN pc' = "axis" /\ fi' = fi       \* line 80: enter the inner loop
           ELSE pc' = "file" /\ fi' = fi + 1   \* a range over no axis runs no pass
    /\ ai' = 1
    /\ UNCHANGED <<yamls, pidSequence, created, items, result, err, pipeline,
                   refiltered, pathVars, envVars>>

\* lines 72-75, matrix.ParseString fails
MatrixParseFails ==
    /\ pc = "file"
    /\ fi <= Len(yamls)
    /\ ReturnError("matrix")
    /\ UNCHANGED <<yamls, pipeline, refiltered, pathVars, envVars>>

\* lines 80-156, one pass of the inner loop in which no stage fails: the
\* substituted and parsed workflow (its when-match, its depends_on and the
\* stages it lowers to) is what the YAML of this file and axis makes it
CompileAxis ==
    /\ pc = "axis"
    /\ \E match \in BOOLEAN, stages \in StagePlans, dependsOn \in DependsOnLists :
        LET name  == SanitizePath(yamls[fi])
            state == WorkflowState(match)
            kept  == KeepsItem(stages)
        IN  /\ created' = Append(created,
                    [PID |-> pidSequence, WhenMatch |-> match,
                     State |-> state, Kept |-> kept])
            /\ items' = IF kept
                        THEN Append(items, NewItem(name, pidSequence, state, stages, dependsOn))
                        ELSE items
            /\ pidSequence' = NextPidSequence(pidSequence, kept)
    /\ IF ai < axes
       THEN /\ ai' = ai + 1
            /\ UNCHANGED <<fi, pc>>
       ELSE /\ fi' = fi + 1
            /\ pc' = "file"
            /\ UNCHANGED ai
    /\ UNCHANGED <<yamls, axes, matrix, result, err, pipeline,
                   refiltered, pathVars, envVars>>

\* lines 102-105, 108-111, 114-118, 126-131, 134-136: a stage fails
CompileFails ==
    /\ pc = "axis"
    /\ \E e \in StageErrors \ {"matrix"} : ReturnError(e)
    /\ UNCHANGED <<yamls, pipeline, refiltered, pathVars, envVars>>

\* the locals of a call that has returned
LocalsGone ==
    /\ fi' = 0 /\ axes' = 0 /\ ai' = 0 /\ matrix' = <<>>
    /\ pidSequence' = 0 /\ created' = <<>> /\ items' = <<>>

\* lines 159-166: reconcile, check for a startpoint, return
Reconcile ==
    /\ pc = "file"
    /\ fi > Len(yamls)
    /\ LET survivors == filterItemsWithMissingDependencies(items)
       IN  /\ err' = BuildError(survivors)
           /\ result' = IF BuildError(survivors) = NoError THEN survivors ELSE <<>>
    /\ LocalsGone
    /\ pc' = "done"
    /\ UNCHANGED <<yamls, pipeline, refiltered, pathVars, envVars>>

----------------------------------------------------------------------------
(* SetPipelineStepsOnPipeline *)

\* lines 283-288
RECURSIVE MaxWorkflowPID(_, _)
MaxWorkflowPID(its, seq) ==
    IF its = <<>> THEN seq
    ELSE MaxWorkflowPID(Tail(its), IF seq < Head(its).PID THEN Head(its).PID ELSE seq)

\* lines 298-308
NewStep(pid, item) ==
    [PID |-> pid, PPID |-> item.PID,
     State |-> IF item.State = StatusSkipped THEN StatusSkipped ELSE StatusPending]

\* lines 293-310: the steps of one stage; the stage's gid is a local that is
\* computed and stored nowhere
StageSteps(n, item, seq) == [k \in 1..n |-> NewStep(seq + k, item)]

\* lines 291-311: the children of one item, numbered from seq + 1
RECURSIVE ItemChildren(_, _, _, _)
ItemChildren(stages, item, seq, children) ==
    IF stages = <<>> THEN children
    ELSE ItemChildren(Tail(stages), item, seq + Head(stages),
                      children \o StageSteps(Head(stages), item, seq))

RECURSIVE SumSeq(_)
SumSeq(s) == IF s = <<>> THEN 0 ELSE Head(s) + SumSeq(Tail(s))

\* lines 290-313
RECURSIVE NumberSteps(_, _, _)
NumberSteps(its, seq, workflows) ==
    IF its = <<>> THEN workflows
    ELSE LET item == Head(its)
         IN  NumberSteps(Tail(its), seq + SumSeq(item.Stages),
                 Append(workflows,
                        [Name |-> item.Name, PID |-> item.PID, State |-> item.State,
                         Children |-> ItemChildren(item.Stages, item, seq, <<>>)]))

\* lines 284-288 left out: the numbering of steps restarts at zero
StartSequenceZero(its) == 0

\* lines 283-288: the counter the numbering of steps starts from
StartSequence(its) == MaxWorkflowPID(its, 0)

\* lines 282-316, on the items a successful Build returned
SetPipelineStepsOnPipeline ==
    /\ pc = "done"
    /\ err = NoError
    /\ pipeline' = NumberSteps(result, StartSequence(result), <<>>)
    /\ pc' = "stored"
    /\ UNCHANGED <<yamls, fi, axes, ai, matrix, pidSequence, created, items,
                   result, err, refiltered, pathVars, envVars>>

Next ==
    \/ SortYamls
    \/ ParseMatrix
    \/ MatrixParseFails
    \/ CompileAxis
    \/ CompileFails
    \/ Reconcile
    \/ SetPipelineStepsOnPipeline

Spec == Init /\ [][Next]_vars

----------------------------------------------------------------------------
(* The reconciler on an arbitrary item list *)

ItemNames == {Str("a"), Str("b")}

FilterDependsOnLists ==
    DependsOnLists \cup { <<Str("a"), Str("b")>>, <<Str("a"), Str("c")>>,
                          <<Str("c"), Str("c")>> }

ItemLists ==
    { [i \in DOMAIN l |-> NewItem(l[i][1], i, StatusPending, <<1>>, l[i][2])] :
        l \in SeqsUpTo(ItemNames \X FilterDependsOnLists, MaxItems) }

InitFilter ==
    /\ pc = "filter"
    /\ items \in ItemLists
    /\ yamls = <<>> /\ fi = 0 /\ axes = 0 /\ ai = 0 /\ matrix = <<>>
    /\ pidSequence = 0 /\ created = <<>> /\ result = <<>>
    /\ err = NoError /\ pipeline = <<>>
    /\ refiltered = <<>>
    /\ IdlePath /\ IdleEnv

FilterItems ==
    /\ pc = "filter"
    /\ result' = filterItemsWithMissingDependencies(items)
    /\ pc' = "filtered"
    /\ UNCHANGED <<yamls, fi, axes, ai, matrix, pidSequence, created, items, err,
                   pipeline, refiltered, pathVars, envVars>>

FilterAgain ==
    /\ pc = "filtered"
    /\ refiltered' = filterItemsWithMissingDependencies(result)
    /\ pc' = "refiltered"
    /\ UNCHANGED <<buildVars, pathVars, envVars>>

NextFilter == FilterItems \/ FilterAgain

SpecFilter == InitFilter /\ [][NextFilter]_vars

----------------------------------------------------------------------------
(* SanitizePath on a path *)

PathSegments == { <<"a">>, <<".">>, <<"/">>, DotYml, DotYaml }

RECURSIVE Concat(_)
Concat(segments) ==
    IF segments = <<>> THEN <<>> ELSE Head(segments) \o Concat(Tail(segments))

Paths == { Concat(segments) : segments \in SeqsUpTo(PathSegments, MaxSegments) }

InitSanitize ==
    /\ pc = "path"
    /\ path \in Paths
    /\ sanitized = <<>> /\ resanitized = <<>>
    /\ IdleBuild /\ refiltered = <<>> /\ IdleEnv

Sanitize ==
    /\ pc = "path"
    /\ sanitized' = SanitizePath(path)
    /\ pc' = "sanitized"
    /\ UNCHANGED <<buildVars, refiltered, path, resanitized, envVars>>

SanitizeAgain ==
    /\ pc = "sanitized"
    /\ resanitized' = SanitizePath(sanitized)
    /\ pc' = "resanitized"
    /\ UNCHANGED <<buildVars, refiltered, path, sanitized, envVars>>

NextSanitize == Sanitize \/ SanitizeAgain

SpecSanitize == InitSanitize /\ [][NextSanitize]_vars

----------------------------------------------------------------------------
(* The environment Build composes, lines 89-99 *)

EnvKeys   == {"CI_REPO", "GO_VERSION"}
EnvValues == {"v1", "v2"}
\* the maps from some of the keys to values
EnvMaps   == UNION { [D -> EnvValues] : D \in SUBSET EnvKeys }

\* lines 212-218: the metadata environment, overlaid with the axis
environmentVariables(metadata, ax) ==
    [k \in DOMAIN metadata \cup DOMAIN ax |->
        IF k \in DOMAIN ax THEN ax[k] ELSE metadata[k]]

\* lines 94-97 left out: a global overwrites the key it shares
AddGlobalsOverwriting(env, globals) ==
    [k \in DOMAIN env \cup DOMAIN globals |->
        IF k \in DOMAIN globals THEN globals[k] ELSE env[k]]

\* lines 93-99: the globals fill in the keys that do not exist yet
AddGlobals(env, globals) ==
    [k \in DOMAIN env \cup DOMAIN globals |->
        IF k \in DOMAIN env THEN env[k] ELSE globals[k]]

InitEnv ==
    /\ pc = "env"
    /\ Envs \in EnvMaps
    /\ metadataEnv \in EnvMaps
    /\ axis \in EnvMaps
    /\ environ = <<>>
    /\ IdleBuild /\ refiltered = <<>> /\ IdlePath

\* lines 89-99
ComposeEnviron ==
    /\ pc = "env"
    /\ environ' = AddGlobals(environmentVariables(metadataEnv, axis), Envs)
    /\ pc' = "composed"
    /\ UNCHANGED <<buildVars, refiltered, pathVars, Envs, metadataEnv, axis>>

NextEnv == ComposeEnviron

SpecEnv == InitEnv /\ [][NextEnv]_vars

----------------------------------------------------------------------------
(* Properties *)

\* name is the Workflow.Name of an item of its
Resolves(name, its) == \E j \in 1..Len(its) : its[j].Name = name

\* every depends_on name of every item of its resolves within its
Closed(its) ==
    \A i \in 1..Len(its) : \A d \in 1..Len(its[i].DependsOn) :
        Resolves(its[i].DependsOn[d], its)

\* the items of its at the indices S, in their order
KeepIndices(its, S) ==
    LET F[i \in 0..Len(its)] ==
            IF i = 0 THEN <<>>
            ELSE IF i \in S THEN Append(F[i - 1], its[i]) ELSE F[i - 1]
    IN  F[Len(its)]

\* the largest sublist of its that is closed under depends_on
LargestClosedSubset(its) ==
    KeepIndices(its, UNION { S \in SUBSET (1..Len(its)) : Closed(KeepIndices(its, S)) })

\* the reconciled list as the set of names decides it: the items whose name
\* is in the largest set N of names such that every item named in N depends
\* only on names in N that some item carries
LargestClosedSubsetByName(its) ==
    LET names == {its[i].Name : i \in 1..Len(its)}
        ok(N) == \A i \in 1..Len(its) : its[i].Name \in N =>
                    \A d \in 1..Len(its[i].DependsOn) : its[i].DependsOn[d] \in N
        best  == UNION { N \in SUBSET names : ok(N) }
    IN  SelectSeq(its, LAMBDA item : item.Name \in best)

\* the step in which Build returns after its loops ran without a stage error
BuildReturns == pc = "file" /\ pc' = "done" /\ err' \notin StageErrors

\* Build has returned its items and no error
Succeeded == pc \in {"done", "stored"} /\ err = NoError

RECURSIVE MatrixTotal(_)
MatrixTotal(m) ==
    IF m = <<>> THEN 0 ELSE (IF Head(m) = 0 THEN 1 ELSE Head(m)) + MatrixTotal(Tail(m))

NumSkipped(ws) == Cardinality({i \in 1..Len(ws) : ws[i].State = StatusSkipped})

\* C1: whenever Build returns successfully, every name in the DependsOn of
\* every returned item is the Workflow.Name of an item of the returned list
C1_DependencyClosure ==
    Succeeded =>
        \A i \in 1..Len(result) : \A d \in 1..Len(result[i].DependsOn) :
            \E j \in 1..Len(result) : result[j].Name = result[i].DependsOn[d]

\* a successful Build whose reconciler removed the first workflow and kept
\* two, one of which has a dependency
C1_Witness ==
    /\ pc = "done" /\ err = NoError
    /\ Len(result) = 2
    /\ result[1].PID > 1
    /\ \E i \in 1..2 : result[i].DependsOn # <<>>

\* C2: in the list a successful Build returns, the PIDs in list order are
\* 1, 2, ..., n
C2_PIDDense ==
    Succeeded => \A i \in 1..Len(result) : result[i].PID = i

\* C3 (as claimed): every workflow whose when-predicate missed is in the
\* output as a skipped item and the miss causes no error
C3_SkippedRetained ==
    [][BuildReturns =>
        /\ err' = NoError
        /\ NumSkipped(result') = NumSkipped(created)]_vars

\* C3 (amended): a when-miss sets the state to skipped; the workflow becomes
\* an item exactly when its plan has a stage; it is in the output only if at
\* least one survivor is pending, and it is in the output whenever Build
\* succeeds and every dependency resolves; one file without matrix whose
\* when-filter misses never yields an item: no-startpoint if its item
\* survives, an empty output without error otherwise
C3_SkippedAmended ==
    [][BuildReturns =>
        /\ \A k \in 1..Len(created) :
              (created[k].State = StatusSkipped) <=> ~created[k].WhenMatch
        /\ \A k \in 1..Len(created) :
              created[k].Kept =>
                  \E i \in 1..Len(items) : /\ items[i].PID = created[k].PID
                                           /\ items[i].State = created[k].State
        /\ Len(items) = Cardinality({k \in 1..Len(created) : created[k].Kept})
        /\ NumSkipped(result') > 0 =>
              \E j \in 1..Len(result') : result'[j].State = StatusPending
        /\ (err' = NoError /\ Closed(items)) => result' = items
        /\ (Len(created) = 1 /\ ~created[1].WhenMatch) =>
              /\ result' = <<>>
              /\ err' = IF created[1].Kept /\ Closed(items)
                        THEN ErrNoStartpoint ELSE NoError]_vars

\* a returned list that holds a skipped item next to a pending one
C3_Witness ==
    /\ pc = "done" /\ err = NoError
    /\ \E i, j \in 1..Len(result) : /\ result[i].State = StatusSkipped
                                    /\ result[j].State = StatusPending

\* C4: without a stage error, Build fails with no-startpoint exactly when the
\* reconciled list is non-empty and holds no pending workflow; an empty
\* reconciled list gives an empty output and no error, and a pending
\* survivor gives the survivors and no error
C4_NoStartpoint ==
    [][BuildReturns =>
        LET survivors == LargestClosedSubsetByName(items)
            pending   == \E i \in 1..Len(survivors) : survivors[i].State = StatusPending
        IN  /\ (err' = ErrNoStartpoint) <=> (Len(survivors) > 0 /\ ~pending)
            /\ Len(survivors) = 0 => (result' = <<>> /\ err' = NoError)
            /\ pending => (result' = survivors /\ err' = NoError)]_vars

\* Build failed with no-startpoint on two files
C4_Witness ==
    /\ pc = "done" /\ err = ErrNoStartpoint /\ Len(yamls) = 2

\* C5 (as claimed): a successful Build emits as many items as the matrix
\* products of the files sum to
C5_MatrixTotality ==
    [][(BuildReturns /\ err' = NoError) => Len(result') = MatrixTotal(matrix)]_vars

\* C5 (amended): a successful Build compiled as many workflows as the matrix
\* products sum to (1 for no matrix); the items are these less the workflows
\* with an empty plan; the output is these less what the reconciler removes,
\* and all of them when every dependency resolves
C5_MatrixAmended ==
    [][(BuildReturns /\ err' = NoError) =>
        /\ Len(created) = MatrixTotal(matrix)
        /\ Len(items) = Len(created) - Cardinality({k \in 1..Len(created) : ~created[k].Kept})
        /\ Len(result') <= Len(items)
        /\ (Len(result') = Len(items)) <=> Closed(items)]_vars

\* a successful Build of a file without matrix and a file with two axes
C5_Witness ==
    /\ pc = "done" /\ err = NoError
    /\ Len(yamls) = 2
    /\ Len(result) = 3

\* C9: the step PIDs continue from the largest workflow PID, consecutively in
\* the order items, stages, steps; all PIDs are unique, every step PID is
\* above every workflow PID, and a step's PPID is its workflow's PID
C9_StepNumbering ==
    pc = "stored" =>
        LET wf(i) == pipeline[i]
            n     == Len(pipeline)
            before(i) == SumSeq([j \in 1..(i - 1) |-> Len(wf(j).Children)])
            top   == IF n = 0 THEN 0
                     ELSE CHOOSE m \in {wf(i).PID : i \in 1..n} :
                              \A i \in 1..n : wf(i).PID <= m
        IN  /\ n = Len(result)
            /\ \A i \in 1..n :
                  /\ wf(i).PID = result[i].PID
                  /\ Len(wf(i).Children) = SumSeq(result[i].Stages)
                  /\ \A k \in 1..Len(wf(i).Children) :
                        /\ wf(i).Children[k].PID = top + before(i) + k
                        /\ wf(i).Children[k].PPID = wf(i).PID
                        /\ \A j \in 1..n : wf(i).Children[k].PID > wf(j).PID
            /\ \A i, j \in 1..n : i # j => wf(i).PID # wf(j).PID

\* two stored workflows with steps, the first PID of which is not 1
C9_Witness ==
    /\ pc = "stored"
    /\ Len(pipeline) = 2
    /\ pipeline[1].PID > 1
    /\ Len(pipeline[2].Children) = 3

\* C10: what the reconciler keeps is the largest sublist of the items in
\* which every depends_on name resolves, in the original order
C10_RemovesNoMore ==
    [][(BuildReturns /\ err' = NoError) => result' = LargestClosedSubset(items)]_vars

\* C6 (as claimed): a key that the metadata environment and the globals
\* both hold, with different values, has the metadata value in the composed
\* environment
C6_MetadataPrecedence ==
    pc = "composed" =>
        \A k \in DOMAIN metadataEnv \cap DOMAIN Envs :
            metadataEnv[k] # Envs[k] => environ[k] = metadataEnv[k]

\* C6 (amended): such a key has the value it had before the globals were
\* folded in, which is the axis value when the matrix axis defines the key and
\* the metadata value otherwise; the globals overwrite no existing key and
\* supply exactly the keys that neither the metadata nor the axis holds
C6_PrecedenceAmended ==
    pc = "composed" =>
        /\ \A k \in DOMAIN metadataEnv \cap DOMAIN Envs :
              metadataEnv[k] # Envs[k] =>
                  environ[k] = IF k \in DOMAIN axis THEN axis[k] ELSE metadataEnv[k]
        /\ \A k \in DOMAIN axis : environ[k] = axis[k]
        /\ \A k \in DOMAIN metadataEnv \ DOMAIN axis : environ[k] = metadataEnv[k]
        /\ \A k \in DOMAIN Envs \ (DOMAIN metadataEnv \cup DOMAIN axis) :
              environ[k] = Envs[k]
        /\ DOMAIN environ = DOMAIN metadataEnv \cup DOMAIN axis \cup DOMAIN Envs

\* a composed environment for a key that the metadata and the globals hold
\* with different values and the axis does not hold
C6_Witness ==
    /\ pc = "composed"
    /\ \E k \in (DOMAIN metadataEnv \cap DOMAIN Envs) \ DOMAIN axis :
          metadataEnv[k] # Envs[k]

\* C7: the reconciler applied to its own output returns that output, item for
\* item, and its output is a fixed point: no dependency in it is missing
C7_Idempotent ==
    pc = "refiltered" =>
        /\ refiltered = result
        /\ \A i \in 1..Len(result) : \A d \in 1..Len(result[i].DependsOn) :
              \E j \in 1..Len(result) : result[j].Name = result[i].DependsOn[d]

\* a list of three from which the reconciler removed two, filtered twice
C7_Witness ==
    /\ pc = "refiltered"
    /\ Len(items) = 3
    /\ Len(result) = 1

\* C8: SanitizePath(SanitizePath(x)) = SanitizePath(x) for every path x
C8_SanitizeIdempotent ==
    pc = "resanitized" => resanitized = sanitized

====
